---- MODULE Spec2Model ----
(***************************************************************************)
(* Model of src/lib/gallery.ts: the gallery's synchronisation with WNFS.   *)
(*                                                                         *)
(* Every async function is a process that advances from one `await` to the *)
(* next.  A step of a process is: the awaited store call takes effect and  *)
(* returns (or fails), and the code after it runs up to the issue of the   *)
(* next awaited call.  JavaScript runs that code without interruption, so  *)
(* each step is one atomic action; other processes interleave between      *)
(* steps.  A store call that fails has no effect on the store.             *)
(*                                                                         *)
(* Left out of an Image: id (a fresh uuid), size and src (the base64 data  *)
(* URL of the content).  File contents are not modelled.                   *)
(***************************************************************************)
EXTENDS Integers, Sequences, FiniteSets, TLC

(* ------------------------------ bounds -------------------------------- *)
\* modification times the store hands out are 1..MaxMtime
MaxMtime == 2
\* numbers of calls the UI makes in one session: of getImagesFromWNFS, of
\* uploadImageToWNFS and of deleteImageFromWNFS
MaxLoads == 2
MaxUploads == 2
MaxDeletes == 1
\* number of files in the FileList of one handleFileInput call
MaxBatch == 2

Names == {"a.jpg", "b.jpg"}
MTimes == 1..MaxMtime
\* mtime value standing for "no file at this path"
Absent == 0

(* --------------------------- program constants ------------------------ *)
PUBLIC == "Public"
PRIVATE == "Private"
AREAS == {PUBLIC, PRIVATE}

GALLERY_DIRS ==
  [a \in AREAS |-> IF a = PUBLIC THEN <<"public", "gallery">>
                                 ELSE <<"private", "gallery">>]
FILE_SIZE_LIMIT == 5

Roots == {"public", "private"}

MiB == 1024 * 1024
\* sizes of the files the user picks: exactly 5 MiB, and one byte more
Sizes == {5 * MiB, 5 * MiB + 1}

\* what the gallery directories hold at start-up: two files of different age
\* in the public one and one file in the private one, or nothing in the
\* public one and two files of the same age in the private one
InitStores ==
  {[r \in Roots |-> [n \in Names |->
      IF r = "public" THEN (IF n = "a.jpg" THEN 1 ELSE MaxMtime)
                      ELSE (IF n = "a.jpg" THEN 1 ELSE Absent)]],
   [r \in Roots |-> [n \in Names |->
      IF r = "public" THEN Absent ELSE 1]]}


(* ------------------------------ ids ----------------------------------- *)
UILoadIds == 1..MaxLoads
DeleteIds == 1..MaxDeletes
\* a session has one handleFileInput call
BatchIds == {1}
UploadIds == 1..(MaxUploads + MaxBatch)
\* every deleteImageFromWNFS and handleFileInput call has its own nested
\* getImagesFromWNFS call
DeleteLoad(d) == MaxLoads + d
BatchLoad(b) == MaxLoads + MaxDeletes + b
LoadIds == 1..(MaxLoads + MaxDeletes + Cardinality(BatchIds))

\* The sessions explored: what the UI calls in one run, and how often.  The
\* user selects areas at any time in every session.
Session(loads, uploads, deletes, batches) ==
  [loads |-> loads, uploads |-> uploads, deletes |-> deletes, batches |-> batches]
Sessions ==
  {Session(MaxLoads, 0, 0, 0),
   Session(0, MaxUploads, 0, 0),
   Session(1, 0, MaxDeletes, 0),
   Session(0, 0, 0, Cardinality(BatchIds)),
   Session(1, 1, 0, 0)}

VARIABLES
  gallery,   \* galleryStore: selectedArea, publicImages, privateImages, loading
  fs,        \* filesystemStore: fs[root][name] = mtime of the file, or Absent
  load,      \* the getImagesFromWNFS calls
  upload,    \* the uploadImageToWNFS calls
  del,       \* the deleteImageFromWNFS calls
  batch,     \* the handleFileInput calls
  session    \* the calls the UI makes in this run

vars == <<gallery, fs, load, upload, del, batch, session>>

(* ----------------------------- helpers -------------------------------- *)
\* wn.path.directory(...GALLERY_DIRS[area])
DirPath(area) == GALLERY_DIRS[area]
\* wn.path.file(...GALLERY_DIRS[area], name)
FilePath(area, name) == Append(GALLERY_DIRS[area], name)

\* the store's answer for a file path
FileAt(store, path) == store[path[1]][path[3]]
FileExists(store, path) == FileAt(store, path) # Absent
\* names the store lists under a directory path
Listed(store, dir) == {n \in Names : store[dir[1]][n] # Absent}

Call(op, path) == [op |-> op, path |-> path]
NoPath == <<>>

\* all orders in which a set of names can be listed
RECURSIVE Orders(_)
Orders(S) ==
  IF S = {} THEN {<<>>}
  ELSE UNION {{<<n>> \o rest : rest \in Orders(S \ {n})} : n \in S}

Image(name, mtime, isPrivate, dir) ==
  [name |-> name, mtime |-> mtime, private |-> isPrivate, dir |-> dir]

\* images.sort((a, b) => b.mtime - a.mtime): Array.prototype.sort is stable,
\* so x goes after every element that does not compare after it
RECURSIVE InsertByMtime(_, _)
InsertByMtime(x, s) ==
  IF s = <<>> THEN <<x>>
  ELSE IF Head(s).mtime - x.mtime < 0 THEN <<x>> \o s
  ELSE <<Head(s)>> \o InsertByMtime(x, Tail(s))

RECURSIVE SortFrom(_, _)
SortFrom(done, rest) ==
  IF rest = <<>> THEN done
  ELSE SortFrom(InsertByMtime(Head(rest), done), Tail(rest))

\* SortByMtime by a sort that is not stable: equal mtimes come out reversed
SortByMtimeTiesReversed(images) ==
  SortFrom(<<>>, [i \in 1..Len(images) |-> images[Len(images) + 1 - i]])

SortByMtime(images) == SortFrom(<<>>, images)

(* ------------------------------ Init ---------------------------------- *)
\* A call's record holds its position (pc: "idle" before the call, the name
\* of the store call it awaits, "done" after it), its local constants
\* (selectedArea, isPrivate, links, imageExists, the file's name and size)
\* and what is observed of it: calls, the store calls and galleryStore
\* updates it has issued, in order; wrote / removed, whether its fs.write /
\* fs.rm has taken effect; outcome, how it ended; threw, whether it ended by
\* throwing to its caller.  The errors are named as in the specification.
IdleLoad ==
  [pc |-> "idle", selectedArea |-> PUBLIC, isPrivate |-> FALSE,
   links |-> <<>>, pending |-> {}, mtimes |-> [n \in Names |-> Absent],
   calls |-> <<>>, outcome |-> "none", threw |-> FALSE]

IdleUpload ==
  [pc |-> "idle", selectedArea |-> PUBLIC, name |-> "a.jpg", size |-> 100,
   imageExists |-> "unset", wrote |-> FALSE, calls |-> <<>>,
   outcome |-> "none", threw |-> FALSE, owner |-> 0]

IdleDelete ==
  [pc |-> "idle", selectedArea |-> PUBLIC, name |-> "a.jpg",
   imageExists |-> "unset", removed |-> FALSE, calls |-> <<>>,
   outcome |-> "none", threw |-> FALSE]

IdleBatch ==
  [pc |-> "idle", files |-> {}, refreshes |-> 0, threw |-> FALSE]

\* The initial value of galleryStore is set outside gallery.ts: no images
\* are loaded and no listing is in flight; either area may be selected.  The
\* file system holds what earlier sessions left in it.
Init ==
  /\ gallery \in [selectedArea : AREAS, publicImages : {<<>>},
                  privateImages : {<<>>}, loading : {FALSE}]
  /\ fs \in InitStores
  /\ load = [l \in LoadIds |-> IdleLoad]
  /\ upload = [u \in UploadIds |-> IdleUpload]
  /\ del = [d \in DeleteIds |-> IdleDelete]
  /\ batch = [b \in BatchIds |-> IdleBatch]
  /\ session \in Sessions

(* ------------------------ allocation of calls ------------------------- *)
\* calls are numbered in the order in which they start
Started(calls, ids) == {i \in ids : calls[i].pc # "idle"}
IsNext(calls, ids, i) == i \in ids /\ i = Cardinality(Started(calls, ids)) + 1

(* ---------------------- the user selects an area ---------------------- *)
SelectArea(a) ==
  /\ a # gallery.selectedArea
  /\ gallery' = [gallery EXCEPT !.selectedArea = a]
  /\ UNCHANGED <<fs, load, upload, del, batch, session>>

(* ------------------------- getImagesFromWNFS -------------------------- *)
\* SetLoading left out: loading is not set when the call starts
SetLoadingNotYet(g) == g

\* line 39
SetLoading(g) == [g EXCEPT !.loading = TRUE]

\* lines 39-49: the call up to its first await
LoadBegin(g) ==
  [IdleLoad EXCEPT
     !.pc = "ls",
     !.selectedArea = g.selectedArea,
     !.isPrivate = (g.selectedArea = PRIVATE),
     !.calls = <<Call("update", NoPath), Call("ls", DirPath(g.selectedArea))>>]

\* PushImages choosing the list by the area selected at the time of the write
PushImagesByCurrentArea(g, isPrivate, images) ==
  IF g.selectedArea = PRIVATE
    THEN [g EXCEPT !.privateImages = images, !.loading = FALSE]
    ELSE [g EXCEPT !.publicImages = images, !.loading = FALSE]

\* PushImages that keeps a list already loaded: the first call to complete
\* wins
PushImagesFirstWins(g, isPrivate, images) ==
  IF isPrivate
    THEN [g EXCEPT !.privateImages = IF @ = <<>> THEN images ELSE @,
                   !.loading = FALSE]
    ELSE [g EXCEPT !.publicImages = IF @ = <<>> THEN images ELSE @,
                   !.loading = FALSE]

\* lines 82-90
PushImages(g, isPrivate, images) ==
  IF isPrivate
    THEN [g EXCEPT !.privateImages = images, !.loading = FALSE]
    ELSE [g EXCEPT !.publicImages = images, !.loading = FALSE]

\* LoadCatch that only logs the error
LoadCatchKeepsLoading(g) == g

\* LoadCatch that also drops the images loaded before
LoadCatchClearsImages(g) ==
  [g EXCEPT !.loading = FALSE, !.publicImages = <<>>, !.privateImages = <<>>]

\* lines 91-97
LoadCatch(g) == [g EXCEPT !.loading = FALSE]

\* the load record once the catch block has run
LoadFailed(rec) ==
  [rec EXCEPT !.pc = "done", !.outcome = "error",
              !.links = <<>>, !.pending = {}, !.mtimes = IdleLoad.mtimes,
              !.calls = Append(@, Call("update", NoPath))]

\* LoadedImages that marks an image private by the area selected when the
\* fetches have returned
LoadedImagesCurrentArea(rec) ==
  SortByMtime([i \in 1..Len(rec.links) |->
                 Image(rec.links[i], rec.mtimes[rec.links[i]],
                       gallery.selectedArea = PRIVATE,
                       GALLERY_DIRS[rec.selectedArea])])

\* lines 53-77: the images of a call whose fetches have all returned, in the
\* order of the listing (Promise.all keeps the order of its input), sorted
LoadedImages(rec) ==
  SortByMtime([i \in 1..Len(rec.links) |->
                 Image(rec.links[i], rec.mtimes[rec.links[i]], rec.isPrivate,
                       GALLERY_DIRS[rec.selectedArea])])

\* lines 75-90: Promise.all has resolved
LoadFinish(l, rec) ==
  /\ gallery' = PushImages(gallery, rec.isPrivate, LoadedImages(rec))
  /\ load' = [load EXCEPT ![l] =
                [rec EXCEPT !.pc = "done", !.outcome = "ok",
                            !.links = <<>>, !.mtimes = IdleLoad.mtimes,
                            !.calls = Append(@, Call("update", NoPath))]]

\* the UI calls getImagesFromWNFS
GetImages(l) ==
  /\ l <= session.loads
  /\ IsNext(load, UILoadIds, l)
  /\ gallery' = SetLoading(gallery)
  /\ load' = [load EXCEPT ![l] = LoadBegin(gallery)]
  /\ UNCHANGED <<fs, upload, del, batch, session>>

\* the get calls issued for a listing, lines 54-57
GetCalls(rec, links) ==
  [i \in 1..Len(links) |-> Call("get", FilePath(rec.selectedArea, links[i]))]

\* line 49 returns
LsReturn(l) ==
  /\ load[l].pc = "ls"
  /\ \E links \in Orders(Listed(fs, DirPath(load[l].selectedArea))) :
       LET rec == [load[l] EXCEPT !.links = links,
                                  !.calls = @ \o GetCalls(load[l], links)]
       IN IF links = <<>>
            THEN LoadFinish(l, rec)
            ELSE /\ load' = [load EXCEPT ![l] =
                              [rec EXCEPT !.pc = "get",
                                          !.pending = Listed(fs, DirPath(load[l].selectedArea))]]
                 /\ UNCHANGED gallery
  /\ UNCHANGED <<fs, upload, del, batch, session>>

\* line 49 throws
LsFail(l) ==
  /\ load[l].pc = "ls"
  /\ gallery' = LoadCatch(gallery)
  /\ load' = [load EXCEPT ![l] = LoadFailed(load[l])]
  /\ UNCHANGED <<fs, upload, del, batch, session>>

\* line 55 returns for the entry n
GetReturn(l, n) ==
  /\ load[l].pc = "get"
  /\ n \in load[l].pending
  /\ FileExists(fs, FilePath(load[l].selectedArea, n))
  /\ LET rec == [load[l] EXCEPT
                   !.mtimes[n] = FileAt(fs, FilePath(load[l].selectedArea, n)),
                   !.pending = @ \ {n}]
     IN IF rec.pending = {}
          THEN LoadFinish(l, rec)
          ELSE /\ load' = [load EXCEPT ![l] = rec]
               /\ UNCHANGED gallery
  /\ UNCHANGED <<fs, upload, del, batch, session>>

\* line 55 throws for the entry n (always so when the file is gone):
\* Promise.all rejects and the other fetches are ignored
GetFail(l, n) ==
  /\ load[l].pc = "get"
  /\ n \in load[l].pending
  /\ gallery' = LoadCatch(gallery)
  /\ load' = [load EXCEPT ![l] = LoadFailed(load[l])]
  /\ UNCHANGED <<fs, upload, del, batch, session>>

(* ------------------------- uploadImageToWNFS -------------------------- *)
\* OverSizeLimit with >= for >
OverSizeLimitInclusive(size) == size >= FILE_SIZE_LIMIT * MiB

\* lines 112-113: imageSizeInMB > FILE_SIZE_LIMIT, with imageSizeInMB the
\* exact quotient size / (1024 * 1024)
OverSizeLimit(size) == size > FILE_SIZE_LIMIT * MiB

\* UploadCatch that throws the error again
UploadCatchRethrows(rec, error) ==
  [rec EXCEPT !.pc = "done", !.outcome = error, !.threw = TRUE]

\* lines 137-139: the catch block logs the error and the call returns
UploadCatch(rec, error) ==
  [rec EXCEPT !.pc = "done", !.outcome = error, !.threw = FALSE]

\* lines 108-120: the call up to its first await, for the file (name, size),
\* started by the batch `owner` (0: called directly)
UploadBegin(g, name, size, owner) ==
  LET rec == [IdleUpload EXCEPT !.selectedArea = g.selectedArea,
                                !.name = name, !.size = size, !.owner = owner]
  IN IF OverSizeLimit(size)
       THEN UploadCatch(rec, "SizeLimitExceeded")
       ELSE [rec EXCEPT !.pc = "exists",
                        !.calls = <<Call("exists", FilePath(g.selectedArea, name))>>]

\* UploadAfterExists with the test of line 122 inverted
UploadAfterExistsInverted(rec, imageExists) ==
  LET r == [rec EXCEPT !.imageExists = IF imageExists THEN "yes" ELSE "no"]
  IN IF imageExists
       THEN [r EXCEPT !.pc = "write",
                      !.calls = Append(@, Call("write", FilePath(r.selectedArea, r.name)))]
       ELSE [r EXCEPT !.pc = "done", !.outcome = "DuplicateName"]

\* UploadAfterExists with fs.write not awaited: publish is issued at once
UploadAfterExistsNoAwait(rec, imageExists) ==
  LET r == [rec EXCEPT !.imageExists = IF imageExists THEN "yes" ELSE "no"]
  IN IF ~imageExists
       THEN [r EXCEPT !.pc = "publish",
                      !.calls = @ \o <<Call("write", FilePath(r.selectedArea, r.name)),
                                       Call("publish", NoPath)>>]
       ELSE [r EXCEPT !.pc = "done", !.outcome = "DuplicateName"]

\* lines 122-136: what the call does with the answer of fs.exists
UploadAfterExists(rec, imageExists) ==
  LET r == [rec EXCEPT !.imageExists = IF imageExists THEN "yes" ELSE "no"]
  IN IF ~imageExists
       THEN [r EXCEPT !.pc = "write",
                      !.calls = Append(@, Call("write", FilePath(r.selectedArea, r.name)))]
       ELSE UploadCatch(r, "DuplicateName")

\* lines 124-130: fs.write has returned
UploadAfterWrite(rec) ==
  [rec EXCEPT !.pc = "publish", !.wrote = TRUE,
              !.calls = Append(@, Call("publish", NoPath))]

\* the UI calls uploadImageToWNFS for one file
UploadImage(u, name, size) ==
  /\ Cardinality({v \in UploadIds : upload[v].pc # "idle" /\ upload[v].owner = 0})
       < session.uploads
  /\ IsNext(upload, UploadIds, u)
  /\ upload' = [upload EXCEPT ![u] = UploadBegin(gallery, name, size, 0)]
  /\ UNCHANGED <<gallery, fs, load, del, batch, session>>

\* line 118 returns
UploadExistsReturn(u) ==
  /\ upload[u].pc = "exists"
  /\ upload' = [upload EXCEPT ![u] =
       UploadAfterExists(upload[u],
         FileExists(fs, FilePath(upload[u].selectedArea, upload[u].name)))]
  /\ UNCHANGED <<gallery, fs, load, del, batch, session>>

\* line 118 throws
UploadExistsFail(u) ==
  /\ upload[u].pc = "exists"
  /\ upload' = [upload EXCEPT ![u] = UploadCatch(upload[u], "StoreIOError")]
  /\ UNCHANGED <<gallery, fs, load, del, batch, session>>

\* UploadWriteReturn by a store whose write creates the file only if it is
\* absent: the second write of a name fails as a duplicate
UploadWriteReturnIfAbsent(u) ==
  /\ upload[u].pc = "write"
  /\ LET path == FilePath(upload[u].selectedArea, upload[u].name)
     IN IF FileExists(fs, path)
          THEN /\ upload' = [upload EXCEPT ![u] = UploadCatch(upload[u], "DuplicateName")]
               /\ UNCHANGED fs
          ELSE /\ \E m \in MTimes : fs' = [fs EXCEPT ![path[1]][path[3]] = m]
               /\ upload' = [upload EXCEPT ![u] = UploadAfterWrite(upload[u])]
  /\ UNCHANGED <<gallery, load, del, batch, session>>

\* line 124 returns: the file is in the store, with an mtime the store chose
UploadWriteReturn(u) ==
  /\ upload[u].pc = "write"
  /\ \E m \in MTimes :
       LET path == FilePath(upload[u].selectedArea, upload[u].name)
       IN fs' = [fs EXCEPT ![path[1]][path[3]] = m]
  /\ upload' = [upload EXCEPT ![u] = UploadAfterWrite(upload[u])]
  /\ UNCHANGED <<gallery, load, del, batch, session>>

\* line 124 throws
UploadWriteFail(u) ==
  /\ upload[u].pc = "write"
  /\ upload' = [upload EXCEPT ![u] = UploadCatch(upload[u], "StoreIOError")]
  /\ UNCHANGED <<gallery, fs, load, del, batch, session>>

\* UploadPublishReturn of an upload that marks the gallery as loading once
\* it has published
UploadPublishReturnSetsLoading(u) ==
  /\ upload[u].pc = "publish"
  /\ upload' = [upload EXCEPT ![u] = [@ EXCEPT !.pc = "done", !.outcome = "ok"]]
  /\ gallery' = [gallery EXCEPT !.loading = TRUE]
  /\ UNCHANGED <<fs, load, del, batch, session>>

\* line 130 returns
UploadPublishReturn(u) ==
  /\ upload[u].pc = "publish"
  /\ upload' = [upload EXCEPT ![u] = [@ EXCEPT !.pc = "done", !.outcome = "ok"]]
  /\ UNCHANGED <<gallery, fs, load, del, batch, session>>

\* line 130 throws
UploadPublishFail(u) ==
  /\ upload[u].pc = "publish"
  /\ upload' = [upload EXCEPT ![u] = UploadCatch(upload[u], "StoreIOError")]
  /\ UNCHANGED <<gallery, fs, load, del, batch, session>>

(* ------------------------ deleteImageFromWNFS ------------------------- *)
\* lines 171-173
DeleteCatch(rec, error) ==
  [rec EXCEPT !.pc = "done", !.outcome = error, !.threw = FALSE]

\* lines 148-153: the call up to its first await
DeleteBegin(g, name) ==
  [IdleDelete EXCEPT !.pc = "exists", !.selectedArea = g.selectedArea,
                     !.name = name,
                     !.calls = <<Call("exists", FilePath(g.selectedArea, name))>>]

\* DeleteAfterExists with the test of line 155 inverted
DeleteAfterExistsInverted(rec, imageExists) ==
  LET r == [rec EXCEPT !.imageExists = IF imageExists THEN "yes" ELSE "no"]
  IN IF ~imageExists
       THEN [r EXCEPT !.pc = "rm",
                      !.calls = Append(@, Call("rm", FilePath(r.selectedArea, r.name)))]
       ELSE [r EXCEPT !.pc = "done", !.outcome = "NotFound"]

\* DeleteAfterExists that resolves the path of fs.rm from the area selected
\* when fs.exists has returned
DeleteAfterExistsCurrentArea(rec, imageExists) ==
  LET r == [rec EXCEPT !.imageExists = IF imageExists THEN "yes" ELSE "no"]
  IN IF imageExists
       THEN [r EXCEPT !.pc = "rm",
                      !.calls = Append(@, Call("rm", FilePath(gallery.selectedArea, r.name)))]
       ELSE DeleteCatch(r, "NotFound")

\* lines 155-170: what the call does with the answer of fs.exists
DeleteAfterExists(rec, imageExists) ==
  LET r == [rec EXCEPT !.imageExists = IF imageExists THEN "yes" ELSE "no"]
  IN IF imageExists
       THEN [r EXCEPT !.pc = "rm",
                      !.calls = Append(@, Call("rm", FilePath(r.selectedArea, r.name)))]
       ELSE DeleteCatch(r, "NotFound")

\* lines 157-160: fs.rm has returned
DeleteAfterRm(rec) ==
  [rec EXCEPT !.pc = "publish", !.removed = TRUE,
              !.calls = Append(@, Call("publish", NoPath))]

\* the UI calls deleteImageFromWNFS
DeleteImage(d, name) ==
  /\ d <= session.deletes
  /\ IsNext(del, DeleteIds, d)
  /\ del' = [del EXCEPT ![d] = DeleteBegin(gallery, name)]
  /\ UNCHANGED <<gallery, fs, load, upload, batch, session>>

\* line 151 returns
DeleteExistsReturn(d) ==
  /\ del[d].pc = "exists"
  /\ del' = [del EXCEPT ![d] =
       DeleteAfterExists(del[d],
         FileExists(fs, FilePath(del[d].selectedArea, del[d].name)))]
  /\ UNCHANGED <<gallery, fs, load, upload, batch, session>>

\* line 151 throws
DeleteExistsFail(d) ==
  /\ del[d].pc = "exists"
  /\ del' = [del EXCEPT ![d] = DeleteCatch(del[d], "StoreIOError")]
  /\ UNCHANGED <<gallery, fs, load, upload, batch, session>>

\* line 157 returns: the file is gone from the store
DeleteRmReturn(d) ==
  /\ del[d].pc = "rm"
  /\ LET path == FilePath(del[d].selectedArea, del[d].name)
     IN /\ FileExists(fs, path)
        /\ fs' = [fs EXCEPT ![path[1]][path[3]] = Absent]
  /\ del' = [del EXCEPT ![d] = DeleteAfterRm(del[d])]
  /\ UNCHANGED <<gallery, load, upload, batch, session>>

\* line 157 throws (always so when the file is gone already)
DeleteRmFail(d) ==
  /\ del[d].pc = "rm"
  /\ del' = [del EXCEPT ![d] = DeleteCatch(del[d], "StoreIOError")]
  /\ UNCHANGED <<gallery, fs, load, upload, batch, session>>

\* line 160 returns, and line 166 calls getImagesFromWNFS
DeletePublishReturn(d) ==
  /\ del[d].pc = "publish"
  /\ del' = [del EXCEPT ![d] =
       [@ EXCEPT !.pc = "refresh",
                 !.calls = Append(@, Call("getImagesFromWNFS", NoPath))]]
  /\ gallery' = SetLoading(gallery)
  /\ load' = [load EXCEPT ![DeleteLoad(d)] = LoadBegin(gallery)]
  /\ UNCHANGED <<fs, upload, batch, session>>

\* line 160 throws
DeletePublishFail(d) ==
  /\ del[d].pc = "publish"
  /\ del' = [del EXCEPT ![d] = DeleteCatch(del[d], "StoreIOError")]
  /\ UNCHANGED <<gallery, fs, load, upload, batch, session>>

\* line 166 has settled
DeleteRefreshReturn(d) ==
  /\ del[d].pc = "refresh"
  /\ load[DeleteLoad(d)].pc = "done"
  /\ del' = [del EXCEPT ![d] =
       IF load[DeleteLoad(d)].threw
         THEN DeleteCatch(@, "StoreIOError")
         ELSE [@ EXCEPT !.pc = "done", !.outcome = "ok"]]
  /\ UNCHANGED <<gallery, fs, load, upload, batch, session>>

(* --------------------------- handleFileInput -------------------------- *)
\* lines 182-186: every file's uploadImageToWNFS call runs up to its first
\* await before Promise.all is awaited.  files maps the upload calls to
\* their files.
BatchBegin(b, files) ==
  [u \in UploadIds |->
     IF u \in DOMAIN files
       THEN UploadBegin(gallery, files[u].name, files[u].size, b)
       ELSE upload[u]]

\* UploadsSettled with Promise.race for Promise.all
UploadsSettledAny(b) ==
  batch[b].files = {} \/ \E u \in batch[b].files : upload[u].pc = "done"

\* line 182: Promise.all settles once every upload has
UploadsSettled(b) == \A u \in batch[b].files : upload[u].pc = "done"

\* the UI calls handleFileInput with a FileList
HandleFileInput(b, k) ==
  /\ b <= session.batches
  /\ IsNext(batch, BatchIds, b)
  /\ LET first == Cardinality(Started(upload, UploadIds)) + 1
         S == first..(first + k - 1)
     IN /\ S \subseteq UploadIds
        /\ \E files \in [S -> [name : Names, size : Sizes]] :
             upload' = BatchBegin(b, files)
        /\ batch' = [batch EXCEPT ![b] = [@ EXCEPT !.pc = "uploads", !.files = S]]
  /\ UNCHANGED <<gallery, fs, load, del, session>>

\* line 182 has settled, and line 189 calls getImagesFromWNFS; an upload
\* that threw would reject Promise.all and end the call
BatchRefresh(b) ==
  /\ batch[b].pc = "uploads"
  /\ UploadsSettled(b)
  /\ IF \E u \in batch[b].files : upload[u].threw
       THEN /\ batch' = [batch EXCEPT ![b] = [@ EXCEPT !.pc = "done", !.threw = TRUE]]
            /\ UNCHANGED <<gallery, load>>
       ELSE /\ batch' = [batch EXCEPT ![b] =
                 [@ EXCEPT !.pc = "refresh", !.refreshes = @ + 1]]
            /\ gallery' = SetLoading(gallery)
            /\ load' = [load EXCEPT ![BatchLoad(b)] = LoadBegin(gallery)]
  /\ UNCHANGED <<fs, upload, del, session>>

\* line 189 has settled
BatchRefreshReturn(b) ==
  /\ batch[b].pc = "refresh"
  /\ load[BatchLoad(b)].pc = "done"
  /\ batch' = [batch EXCEPT ![b] =
       [@ EXCEPT !.pc = "done", !.threw = load[BatchLoad(b)].threw]]
  /\ UNCHANGED <<gallery, fs, load, upload, del, session>>

Next ==
  \/ \E a \in AREAS : SelectArea(a)
  \/ \E l \in LoadIds : GetImages(l)
  \/ \E l \in LoadIds : LsReturn(l)
  \/ \E l \in LoadIds : LsFail(l)
  \/ \E l \in LoadIds, n \in Names : GetReturn(l, n)
  \/ \E l \in LoadIds, n \in Names : GetFail(l, n)
  \/ \E u \in UploadIds, n \in Names, s \in Sizes : UploadImage(u, n, s)
  \/ \E u \in UploadIds : UploadExistsReturn(u)
  \/ \E u \in UploadIds : UploadExistsFail(u)
  \/ \E u \in UploadIds : UploadWriteReturn(u)
  \/ \E u \in UploadIds : UploadWriteFail(u)
  \/ \E u \in UploadIds : UploadPublishReturn(u)
  \/ \E u \in UploadIds : UploadPublishFail(u)
  \/ \E d \in DeleteIds, n \in Names : DeleteImage(d, n)
  \/ \E d \in DeleteIds : DeleteExistsReturn(d)
  \/ \E d \in DeleteIds : DeleteExistsFail(d)
  \/ \E d \in DeleteIds : DeleteRmReturn(d)
  \/ \E d \in DeleteIds : DeleteRmFail(d)
  \/ \E d \in DeleteIds : DeletePublishReturn(d)
  \/ \E d \in DeleteIds : DeletePublishFail(d)
  \/ \E d \in DeleteIds : DeleteRefreshReturn(d)
  \/ \E b \in BatchIds, k \in 0..MaxBatch : HandleFileInput(b, k)
  \/ \E b \in BatchIds : BatchRefresh(b)
  \/ \E b \in BatchIds : BatchRefreshReturn(b)

Spec == Init /\ [][Next]_vars

\* the steps that are the return or the failure of an awaited call
Progress ==
  \/ \E l \in LoadIds : LsReturn(l) \/ LsFail(l)
  \/ \E l \in LoadIds, n \in Names : GetReturn(l, n) \/ GetFail(l, n)
  \/ \E u \in UploadIds :
       \/ UploadExistsReturn(u) \/ UploadExistsFail(u)
       \/ UploadWriteReturn(u) \/ UploadWriteFail(u)
       \/ UploadPublishReturn(u) \/ UploadPublishFail(u)
  \/ \E d \in DeleteIds :
       \/ DeleteExistsReturn(d) \/ DeleteExistsFail(d)
       \/ DeleteRmReturn(d) \/ DeleteRmFail(d)
       \/ DeletePublishReturn(d) \/ DeletePublishFail(d)
       \/ DeleteRefreshReturn(d)
  \/ \E b \in BatchIds : BatchRefresh(b) \/ BatchRefreshReturn(b)

\* No store call hangs: while a call is awaited, some awaited call returns or
\* fails, and the event loop resumes the function that awaits it.
FairSpec == Spec /\ WF_vars(Progress)

(* ============================ properties ============================== *)
ImagesOf(g, area) == IF area = PRIVATE THEN g.privateImages ELSE g.publicImages
OtherArea(area) == IF area = PRIVATE THEN PUBLIC ELSE PRIVATE
Ops(calls) == [i \in 1..Len(calls) |-> calls[i].op]
NamesOf(seq) == {seq[i] : i \in 1..Len(seq)}
InFlight(l) == load[l].pc \in {"ls", "get"}
\* the step is one of the getImagesFromWNFS call l
LoadStep(l) == load'[l] # load[l]
LoadSucceeds(l) == LoadStep(l) /\ load'[l].pc = "done" /\ load'[l].outcome = "ok"

\* C1: no step of a getImagesFromWNFS call that read selectedArea = A at its
\* start changes the image list of the other area or selectedArea, whatever
\* the user selects while the call is in flight.
LoadWritesOnlyItsArea ==
  [][\A l \in LoadIds :
       LoadStep(l) =>
         /\ gallery'.selectedArea = gallery.selectedArea
         /\ ImagesOf(gallery', OtherArea(load'[l].selectedArea))
              = ImagesOf(gallery, OtherArea(load'[l].selectedArea))]_vars

\* C1 witness: the first call has pushed its images while the second call,
\* started for the other area, is in flight.  loading is FALSE, so the first
\* call ended after the second began: the area was switched during the first.
LoadEndsAfterSwitch ==
  /\ session = Session(MaxLoads, 0, 0, 0)
  /\ load[1].pc = "done" /\ load[1].outcome = "ok"
  /\ InFlight(2)
  /\ \A l \in LoadIds \ {1, 2} : load[l].pc = "idle"
  /\ load[2].selectedArea # load[1].selectedArea
  /\ ~gallery.loading
  /\ ImagesOf(gallery, load[1].selectedArea) # <<>>

AllLoadsSettled ==
  /\ \E l \in LoadIds : load[l].pc = "done"
  /\ \A l \in LoadIds : load[l].pc \in {"idle", "done"}

\* C2: when every getImagesFromWNFS call that started has ended, with
\* success or after a failed listing or a failed fetch, loading is FALSE
\* (so a call that runs alone ends by writing loading = FALSE on each of
\* these paths).
LoadingIsReset == AllLoadsSettled => ~gallery.loading

\* C2 witness: a call ended by a failed fetch, another by a failed listing,
\* none is in flight, and loading is FALSE.
LoadsFailedAndSettled ==
  /\ AllLoadsSettled
  /\ ~gallery.loading
  /\ \E l, k \in LoadIds :
       /\ load[l].outcome = "error" /\ "get" \in NamesOf(Ops(load[l].calls))
       /\ load[k].outcome = "error" /\ "get" \notin NamesOf(Ops(load[k].calls))

\* C3: a step of a getImagesFromWNFS call changes an image list only when
\* the call succeeds, and the list it then writes has one image for every
\* entry of its listing; a call that fails changes neither list.
LoadIsAllOrNothing ==
  [][\A l \in LoadIds :
       LoadStep(l) =>
         IF LoadSucceeds(l)
           THEN LET written == ImagesOf(gallery', load[l].selectedArea)
                IN /\ Len(written) = Len(load[l].links)
                   /\ {written[i].name : i \in 1..Len(written)} = NamesOf(load[l].links)
           ELSE /\ gallery'.publicImages = gallery.publicImages
                /\ gallery'.privateImages = gallery.privateImages]_vars

\* C3 witness: a call has failed on a fetch, and the two images another call
\* loaded are in the gallery.
LoadFailedImagesKept ==
  \E l \in LoadIds :
    /\ load[l].pc = "done" /\ load[l].outcome = "error"
    /\ "get" \in NamesOf(Ops(load[l].calls))
    /\ Len(ImagesOf(gallery, load[l].selectedArea)) = 2

\* C4: an upload of more than 5 * 1024 * 1024 bytes fails without any store
\* call; an upload of exactly that many bytes issues fs.exists for its path.
SizeLimitIsExclusive ==
  \A u \in UploadIds :
    upload[u].pc # "idle" =>
      /\ upload[u].size > 5 * 1024 * 1024 =>
           /\ upload[u].calls = <<>>
           /\ upload[u].pc = "done" /\ upload[u].outcome = "SizeLimitExceeded"
           /\ ~upload[u].wrote
      /\ upload[u].size = 5 * 1024 * 1024 =>
           /\ upload[u].calls # <<>>
           /\ upload[u].calls[1] =
                Call("exists", FilePath(upload[u].selectedArea, upload[u].name))

\* C4 witness: a file of exactly 5 MiB has been uploaded and a file of one
\* byte more has been rejected.
BoundaryUploaded ==
  \E u, v \in UploadIds :
    /\ upload[u].size = 5 * 1024 * 1024 /\ upload[u].outcome = "ok"
    /\ upload[v].size = 5 * 1024 * 1024 + 1 /\ upload[v].pc = "done"

\* C5: an upload whose existence check returned true has ended as a
\* duplicate, has issued neither write nor publish and has not written.
DuplicateIsNotWritten ==
  \A u \in UploadIds :
    upload[u].imageExists = "yes" =>
      /\ upload[u].pc = "done" /\ upload[u].outcome = "DuplicateName"
      /\ Ops(upload[u].calls) = <<"exists">>
      /\ ~upload[u].wrote

\* C5 witness: an upload has found its name in the store.
DuplicateRejected ==
  \E u \in UploadIds :
    /\ upload[u].imageExists = "yes"
    /\ FileExists(fs, FilePath(upload[u].selectedArea, upload[u].name))

\* C6: a delete of a name that does not exist issues no rm, no publish and
\* no refresh; a delete that has succeeded has issued exists, one rm, one
\* publish and one refresh, in that order, and the refresh has ended.
DeleteCallSequence ==
  \A d \in DeleteIds :
    /\ del[d].imageExists = "no" =>
         /\ Ops(del[d].calls) = <<"exists">>
         /\ ~del[d].removed
         /\ load[DeleteLoad(d)].pc = "idle"
         /\ del[d].pc = "done" /\ del[d].outcome = "NotFound"
    /\ (del[d].pc = "done" /\ del[d].outcome = "ok") =>
         /\ Ops(del[d].calls) = <<"exists", "rm", "publish", "getImagesFromWNFS">>
         /\ del[d].calls[2].path = FilePath(del[d].selectedArea, del[d].name)
         /\ del[d].removed
         /\ load[DeleteLoad(d)].pc = "done"
    /\ load[DeleteLoad(d)].pc # "idle" =>
         Ops(del[d].calls) = <<"exists", "rm", "publish", "getImagesFromWNFS">>

\* C6 witness: a delete of an existing name has returned.
DeleteSucceeded ==
  \E d \in DeleteIds :
    /\ del[d].pc = "done" /\ del[d].outcome = "ok"
    /\ ~FileExists(fs, FilePath(del[d].selectedArea, del[d].name))

\* C7: a delete that has failed has removed nothing from the store and has
\* not touched the gallery.
FailedDeleteChangesNothing ==
  \A d \in DeleteIds :
    (del[d].pc = "done" /\ del[d].outcome # "ok") =>
      /\ ~del[d].removed
      /\ load[DeleteLoad(d)].pc = "idle"

\* C8: while a handleFileInput call runs, the upload of every one of its
\* files has started (none waits for another to get its answer from the
\* store); the call refreshes only when every upload has ended, refreshes
\* once, however the uploads ended, and returns when the refresh has ended.
BatchRefreshesOnce ==
  \A b \in BatchIds :
    /\ \A u \in UploadIds :
         (upload[u].pc # "idle" /\ upload[u].owner = b) <=> u \in batch[b].files
    /\ load[BatchLoad(b)].pc # "idle" =>
         \A u \in batch[b].files : upload[u].pc = "done"
    /\ batch[b].refreshes <= 1
    /\ batch[b].refreshes = 1 <=> load[BatchLoad(b)].pc # "idle"
    /\ batch[b].pc = "uploads" => batch[b].refreshes = 0
    /\ batch[b].pc = "done" =>
         batch[b].refreshes = 1 /\ load[BatchLoad(b)].pc = "done"

\* C8 witness: a batch of two files has returned after its refresh; one
\* upload succeeded and the other failed.
BatchDoneWithFailure ==
  \E b \in BatchIds :
    /\ batch[b].pc = "done" /\ batch[b].refreshes = 1
    /\ Cardinality(batch[b].files) = 2
    /\ \E u, v \in batch[b].files :
         upload[u].outcome = "ok" /\ upload[v].outcome \notin {"ok", "none"}

UploadCallSequence(u) ==
  <<Call("exists", FilePath(upload[u].selectedArea, upload[u].name)),
    Call("write", FilePath(upload[u].selectedArea, upload[u].name)),
    Call("publish", NoPath)>>

\* C9: an upload that has succeeded has issued exists, one write at its
\* path and one publish, in that order; publish is issued only once the
\* write has returned.
WriteThenPublish ==
  \A u \in UploadIds :
    /\ Len(upload[u].calls) <= 3
    /\ upload[u].calls = SubSeq(UploadCallSequence(u), 1, Len(upload[u].calls))
    /\ "publish" \in NamesOf(Ops(upload[u].calls)) => upload[u].wrote
    /\ upload[u].outcome = "ok" =>
         upload[u].calls = UploadCallSequence(u) /\ upload[u].wrote

\* C9 witness: an upload has succeeded.
UploadSucceeded ==
  \E u \in UploadIds :
    /\ upload[u].pc = "done" /\ upload[u].outcome = "ok"
    /\ upload[u].imageExists = "no"

NothingThrows ==
  /\ \A l \in LoadIds : ~load[l].threw
  /\ \A u \in UploadIds : ~upload[u].threw
  /\ \A d \in DeleteIds : ~del[d].threw
  /\ \A b \in BatchIds : ~batch[b].threw

\* no call is in flight
Quiet ==
  /\ \A l \in LoadIds : load[l].pc \in {"idle", "done"}
  /\ \A u \in UploadIds : upload[u].pc \in {"idle", "done"}
  /\ \A d \in DeleteIds : del[d].pc \in {"idle", "done"}
  /\ \A b \in BatchIds : batch[b].pc \in {"idle", "done"}

\* C10: when no store call hangs, every call of getImagesFromWNFS,
\* uploadImageToWNFS, deleteImageFromWNFS and handleFileInput returns,
\* whatever fails in it, and none ends by throwing.
EveryCallReturns == []NothingThrows /\ []<>Quiet

\* C10 witness: a handleFileInput call has returned although an upload of
\* it and its refresh both failed.
BatchReturnedAfterFailures ==
  \E b \in BatchIds :
    /\ batch[b].pc = "done"
    /\ load[BatchLoad(b)].outcome = "error"
    /\ \E u \in batch[b].files : upload[u].outcome = "StoreIOError"

\* C11: the list a successful getImagesFromWNFS call writes has one image for
\* every entry of its listing, each once; of two images of the list the one
\* with the greater mtime comes first, and of two with the same mtime the one
\* the listing returned first.
LoadSortsByMtime ==
  [][\A l \in LoadIds :
       LoadSucceeds(l) =>
         LET written == ImagesOf(gallery', load[l].selectedArea)
             links == load[l].links
             Pos(n) == CHOOSE i \in 1..Len(links) : links[i] = n
         IN /\ Len(written) = Len(links)
            /\ {written[i].name : i \in 1..Len(written)} = NamesOf(links)
            /\ \A i \in 1..Len(written) : written[i].mtime \in MTimes
            /\ \A i, j \in 1..Len(written) :
                 i < j =>
                   \/ written[i].mtime > written[j].mtime
                   \/ /\ written[i].mtime = written[j].mtime
                      /\ Pos(written[i].name) < Pos(written[j].name)]_vars

\* C11 witness: a call whose listing returned a.jpg before b.jpg has written
\* b.jpg, the newer file, before a.jpg.
NewerListedLaterComesFirst ==
  \E l \in LoadIds :
    /\ load[l].pc = "done" /\ load[l].outcome = "ok"
    /\ Len(load[l].calls) = 5
    /\ load[l].calls[3] = Call("get", FilePath(load[l].selectedArea, "a.jpg"))
    /\ load[l].calls[4] = Call("get", FilePath(load[l].selectedArea, "b.jpg"))
    /\ LET images == ImagesOf(gallery, load[l].selectedArea)
       IN /\ Len(images) = 2
          /\ images[1].name = "b.jpg" /\ images[2].name = "a.jpg"
          /\ images[1].mtime > images[2].mtime
          /\ \A k \in LoadIds \ {l} : load[k].pc = "idle"

\* C12: while loading is TRUE, a getImagesFromWNFS call that read the area
\* now selected is in flight.
LoadingMeansCurrentAreaLoads ==
  gallery.loading =>
    \E l \in LoadIds : InFlight(l) /\ load[l].selectedArea = gallery.selectedArea

\* C13: the step in which a getImagesFromWNFS call starts sets loading to
\* TRUE and leaves selectedArea and both image lists as they were; the call's
\* first store call is the listing of its directory, and the update of
\* galleryStore is issued before it.
LoadingSetBeforeListing ==
  [][\A l \in LoadIds :
       /\ (load[l].pc = "idle" /\ load'[l].pc # "idle") =>
            /\ gallery' = [gallery EXCEPT !.loading = TRUE]
            /\ load'[l].pc = "ls"
            /\ load'[l].calls =
                 <<Call("update", NoPath),
                   Call("ls", GALLERY_DIRS[gallery.selectedArea])>>
       /\ load'[l].pc # "idle" =>
            /\ load'[l].calls[1].op = "update"
            /\ load'[l].calls[2].op = "ls"
            /\ \A i \in 1..Len(load'[l].calls) :
                 load'[l].calls[i].op \in {"ls", "get"} => i > 1]_vars

\* C13 witness: a call awaits its listing, loading is TRUE, and the images
\* an earlier call loaded are still in the gallery.
ListingAwaitedWhileLoading ==
  \E l, k \in LoadIds :
    /\ load[l].pc = "ls"
    /\ gallery.loading
    /\ load[k].pc = "done" /\ load[k].outcome = "ok"
    /\ load[k].selectedArea = load[l].selectedArea
    /\ Len(ImagesOf(gallery, load[l].selectedArea)) = 2

SamePath(u, v) ==
  /\ upload[u].name = upload[v].name
  /\ upload[u].selectedArea = upload[v].selectedArea

\* C14: of two uploadImageToWNFS calls for the same name in the same area
\* that both got the answer "absent" from fs.exists, neither ends as a
\* duplicate and each issues its fs.write at that path, also when the other
\* has written the file in between.
BothPassTheCheck ==
  \A u, v \in UploadIds :
    (u # v /\ SamePath(u, v)
       /\ upload[u].imageExists = "no" /\ upload[v].imageExists = "no") =>
      /\ upload[u].outcome # "DuplicateName"
      /\ Len(upload[u].calls) >= 2
      /\ upload[u].calls[2] =
           Call("write", FilePath(upload[u].selectedArea, upload[u].name))

\* C14 witness: two uploads of one handleFileInput call, for the same name
\* in the same area, have both written and both succeeded.
DoubleWrite ==
  \E b \in BatchIds : \E u, v \in batch[b].files :
    /\ u # v /\ SamePath(u, v)
    /\ upload[u].owner = b /\ upload[v].owner = b
    /\ upload[u].imageExists = "no" /\ upload[v].imageExists = "no"
    /\ upload[u].wrote /\ upload[v].wrote
    /\ upload[u].outcome = "ok" /\ upload[v].outcome = "ok"

\* C15: when a getImagesFromWNFS call succeeds, the list of the area it read
\* at its start holds exactly what the call assembled: the names of its own
\* listing, each with the mtime the call fetched for it, whatever the store
\* holds by now and whatever other calls, also ones that listed later, have
\* written to that list before.
LastCompletedWins ==
  [][\A l \in LoadIds :
       LoadSucceeds(l) =>
         LET written == ImagesOf(gallery', load[l].selectedArea)
             fetched(n) == IF n \in load[l].pending
                             THEN FileAt(fs, FilePath(load[l].selectedArea, n))
                             ELSE load[l].mtimes[n]
         IN /\ Len(written) = Len(load[l].links)
            /\ {written[i].name : i \in 1..Len(written)} = NamesOf(load[l].links)
            /\ \A i \in 1..Len(written) :
                 /\ written[i].mtime = fetched(written[i].name)
                 /\ written[i].private = (load[l].selectedArea = PRIVATE)
            /\ load'[l].selectedArea = load[l].selectedArea]_vars

\* C15 witness: the refresh of a delete listed the directory after the file
\* was removed, and succeeded; a call that had listed it before has completed
\* after it: the list shows the removed file again.
StaleListOverwrote ==
  \E d \in DeleteIds : \E l \in UILoadIds :
    /\ del[d].removed
    /\ load[DeleteLoad(d)].pc = "done" /\ load[DeleteLoad(d)].outcome = "ok"
    /\ load[l].pc = "done" /\ load[l].outcome = "ok"
    /\ load[l].selectedArea = del[d].selectedArea
    /\ load[DeleteLoad(d)].selectedArea = del[d].selectedArea
    /\ ~FileExists(fs, FilePath(del[d].selectedArea, del[d].name))
    /\ \E i \in 1..Len(ImagesOf(gallery, del[d].selectedArea)) :
         ImagesOf(gallery, del[d].selectedArea)[i].name = del[d].name

\* C16: no step of an uploadImageToWNFS call, whether it starts the call,
\* continues it or ends it with success or failure, changes selectedArea,
\* publicImages, privateImages or loading.
UploadLeavesGallery ==
  [][upload' # upload => gallery' = gallery]_vars

\* C16 witness: an upload has written and published a file in an area whose
\* list was loaded before; the list does not show the file.
UploadedButNotListed ==
  \E u \in UploadIds : \E l \in LoadIds :
    /\ upload[u].pc = "done" /\ upload[u].outcome = "ok"
    /\ load[l].pc = "done" /\ load[l].outcome = "ok"
    /\ load[l].selectedArea = upload[u].selectedArea
    /\ FileExists(fs, FilePath(upload[u].selectedArea, upload[u].name))
    /\ ImagesOf(gallery, upload[u].selectedArea) # <<>>
    /\ \A i \in 1..Len(ImagesOf(gallery, upload[u].selectedArea)) :
         ImagesOf(gallery, upload[u].selectedArea)[i].name # upload[u].name

\* the paths of the store calls of a call record that take a file path
FilePaths(rec) ==
  {rec.calls[i].path : i \in {j \in 1..Len(rec.calls) :
                                rec.calls[j].op \in {"exists", "write", "rm"}}}

\* C17: an uploadImageToWNFS or deleteImageFromWNFS call reads selectedArea
\* when it starts and keeps it; its fs.exists and its fs.write or fs.rm all
\* take the one path made of the gallery directory of that area and the
\* file's name, whatever is selected when they are issued.
OnePathPerCall ==
  [][/\ \A u \in UploadIds :
          /\ (upload[u].pc = "idle" /\ upload'[u].pc # "idle") =>
               upload'[u].selectedArea = gallery.selectedArea
          /\ upload[u].pc # "idle" =>
               /\ upload'[u].selectedArea = upload[u].selectedArea
               /\ upload'[u].name = upload[u].name
          /\ FilePaths(upload'[u]) \subseteq
               {<<IF upload'[u].selectedArea = PRIVATE THEN "private" ELSE "public",
                  "gallery", upload'[u].name>>}
     /\ \A d \in DeleteIds :
          /\ (del[d].pc = "idle" /\ del'[d].pc # "idle") =>
               del'[d].selectedArea = gallery.selectedArea
          /\ del[d].pc # "idle" =>
               /\ del'[d].selectedArea = del[d].selectedArea
               /\ del'[d].name = del[d].name
          /\ FilePaths(del'[d]) \subseteq
               {<<IF del'[d].selectedArea = PRIVATE THEN "private" ELSE "public",
                  "gallery", del'[d].name>>}]_vars

\* C17 witness: an upload has checked and written its file under the
\* directory of the area it started in, and another area is selected now.
WroteAfterSwitch ==
  \E u \in UploadIds :
    /\ upload[u].wrote
    /\ Len(upload[u].calls) >= 2
    /\ upload[u].calls[1].op = "exists" /\ upload[u].calls[2].op = "write"
    /\ upload[u].calls[1].path = upload[u].calls[2].path
    /\ gallery.selectedArea # upload[u].selectedArea
    /\ upload[u].calls[2].path[1] # GALLERY_DIRS[gallery.selectedArea][1]
    /\ FileExists(fs, upload[u].calls[2].path)

\* C18: when a deleteImageFromWNFS call has returned after its fs.rm and its
\* fs.publish succeeded, the image list of the area the file was removed
\* from does not hold the deleted name.  Stated for the calls whose refresh
\* succeeded too, the case most favourable to the claim.
DeletedNameLeavesList ==
  \A d \in DeleteIds :
    (del[d].pc = "done" /\ del[d].outcome = "ok"
       /\ load[DeleteLoad(d)].outcome = "ok") =>
      \A i \in 1..Len(ImagesOf(gallery, del[d].selectedArea)) :
        ImagesOf(gallery, del[d].selectedArea)[i].name # del[d].name

\* C19: every image of privateImages is marked private and was read from
\* private/gallery, and every image of publicImages is marked not private
\* and was read from public/gallery.
ImagesMatchTheirList ==
  /\ \A i \in 1..Len(gallery.privateImages) :
       /\ gallery.privateImages[i].private
       /\ gallery.privateImages[i].dir = <<"private", "gallery">>
  /\ \A i \in 1..Len(gallery.publicImages) :
       /\ ~gallery.publicImages[i].private
       /\ gallery.publicImages[i].dir = <<"public", "gallery">>

\* C19 witness: a call has loaded the images of one area while a call for
\* the other area is in flight.  loading is FALSE, so the first ended after
\* the second began: the area was switched while a call was in flight.
LoadedDuringOtherLoad ==
  \E l, k \in LoadIds :
    /\ InFlight(l)
    /\ load[k].pc = "done" /\ load[k].outcome = "ok"
    /\ load[k].selectedArea # load[l].selectedArea
    /\ ImagesOf(gallery, load[k].selectedArea) # <<>>
    /\ ImagesOf(gallery, load[l].selectedArea) = <<>>
    /\ ~gallery.loading
    /\ \A i \in 1..Len(ImagesOf(gallery, load[k].selectedArea)) :
         ImagesOf(gallery, load[k].selectedArea)[i].private
           = (load[k].selectedArea = PRIVATE)
====
